---- MODULE Spec2Model ----
(***************************************************************************)
(* Model of the Mailcow client of src/src/Client.js (the class exported by *)
(* the file, lines 88-397): construction, the request / retryRequest       *)
(* execution path, the fourteen public operations and the WHOIS gate.      *)
(*                                                                         *)
(* JavaScript is single-threaded: every action below is one run of a       *)
(* handler from where it (re)starts to its next await.                     *)
(***************************************************************************)
EXTENDS Naturals, Sequences, FiniteSets

VARIABLES client, calls

vars == <<client, calls>>

-----------------------------------------------------------------------------
(* JavaScript values.  Every value is a record [t, v] (type tag, printed   *)
(* form) so that values of different JavaScript types stay comparable.     *)

JUndefined == [t |-> "undefined", v |-> "undefined"]
JNull == [t |-> "null", v |-> "null"]
JNum(s) == [t |-> "number", v |-> s]
JStr(s) == [t |-> "string", v |-> s]
JBool(s) == [t |-> "boolean", v |-> s]
JArr(s) == [t |-> "array", v |-> s]

\* ToBoolean: what `!x` and `x || y` test.
Truthy(x) ==
    CASE x.t = "undefined" -> FALSE
      [] x.t = "null" -> FALSE
      [] x.t = "number" -> x.v \notin {"0", "NaN"}
      [] x.t = "string" -> x.v # ""
      [] x.t = "boolean" -> x.v = "true"
      [] OTHER -> TRUE

\* typeof x === 'undefined'
TypeofUndefined(x) == x.t = "undefined"

\* `${x}` inside a template literal: ToString.
ToStr(x) == x.v

-----------------------------------------------------------------------------
(* Errors and call results.                                                *)

NoAnswer == [resp |-> FALSE, status |-> 0, body |-> "none"]

\* new Error(msg) thrown by the client itself.
PlainError(msg) == [type |-> "Error", msg |-> msg, attempt |-> 0, ans |-> NoAnswer]
\* A TypeError raised by the runtime (property access on undefined).
TypeError(msg) == [type |-> "TypeError", msg |-> msg, attempt |-> 0, ans |-> NoAnswer]
\* The rejection of the n-th axios(config) of a call, carrying its answer.
AxiosError(n, a) == [type |-> "AxiosError", msg |-> "request failed", attempt |-> n, ans |-> a]
\* The rejection of whoiser.domain(url).
WhoisError == [type |-> "WhoisError", msg |-> "lookup failed", attempt |-> 0, ans |-> NoAnswer]

NoError == [type |-> "none", msg |-> "", attempt |-> 0, ans |-> NoAnswer]

Returned(body) == [kind |-> "return", body |-> body, err |-> NoError]
Thrown(e) == [kind |-> "throw", body |-> "none", err |-> e]
NoResult == [kind |-> "none", body |-> "none", err |-> NoError]

MsgBaseurl == "Please provide a baseurl"
MsgKeys == "Please provide both a Read And Write API key"
MsgInvalidMailboxDomain == "Invalid domain name format"
MsgInvalidDomain == "domain name is invalid"
MsgNotRegistered == "The domain provided was not registered on the WHOIS database."
MsgNoDomain == "No domain name provided"

-----------------------------------------------------------------------------
(* Construction.                                                           *)

\* The URLs ./utils/isUrl accepts, among the base URLs tried.
ValidUrls == {"https://mail.example.org"}

isURL(s) == s.t = "string" /\ s.v \in ValidUrls

\* The options argument: absent (undefined) or an object with the two keys.
NoOptions == [present |-> FALSE, readOnlyKey |-> JUndefined, writeKey |-> JUndefined]
Options(r, w) == [present |-> TRUE, readOnlyKey |-> r, writeKey |-> w]

\* The default values ./Constants may give the two keys: null (a required
\* key) or the empty string of the earlier constructor's defaults.
mailcowjsOptionsChoices ==
    { [readOnlyKey |-> r, writeKey |-> w] : r \in {JNull, JStr("")}, w \in {JNull, JStr("")} }

OptionKeys == <<"readOnlyKey", "writeKey">>

\* One iteration of mergeDefault's first loop for `key`; st = [given, rejected].
MergeKey(def, st, key) ==
    IF st.rejected THEN st
    ELSE IF def[key].t = "null" /\ ~Truthy(st.given[key])
         THEN [st EXCEPT !.rejected = TRUE]
    ELSE IF st.given[key].t \in {"null", "undefined"}
         THEN [st EXCEPT !.given = [@ EXCEPT ![key] = def[key]]]
    ELSE st

\* mergeDefault(def, given): an async function, so a throw inside it is a
\* rejected promise, never a synchronous throw; it updates `given` in place.
\* The second loop only deletes the keys named "0", "1", ...: none here.
mergeDefault(def, given) ==
    IF ~given.present THEN [given |-> given, rejected |-> FALSE]
    ELSE MergeKey(def, MergeKey(def, [given |-> given, rejected |-> FALSE], OptionKeys[1]),
                  OptionKeys[2])

NoHeaders == [XApiKey |-> JUndefined, ContentType |-> "none"]

NoClient == [state |-> "none", baseurl |-> JUndefined, options |-> NoOptions,
             headers |-> NoHeaders, err |-> NoError,
             args |-> [baseurl |-> JUndefined, options |-> NoOptions]]

ConstructorNoKeyCheck(def, baseurl, options) ==
    LET merged == mergeDefault(def, options).given
        obj == [NoClient EXCEPT !.baseurl = baseurl, !.options = merged,
                                !.args = [baseurl |-> baseurl, options |-> options]]
    IN  IF ~Truthy(baseurl) \/ ~isURL(baseurl)
        THEN [obj EXCEPT !.state = "failed", !.err = PlainError(MsgBaseurl)]
        ELSE [obj EXCEPT !.state = "ok",
                         !.headers = [XApiKey |-> merged.writeKey,
                                      ContentType |-> "application/json"]]

\* A constructor that puts the read-only key in the header.
ConstructorReadKeyHeader(def, baseurl, options) ==
    LET merged == mergeDefault(def, options).given
        obj == [NoClient EXCEPT !.baseurl = baseurl, !.options = merged,
                                !.args = [baseurl |-> baseurl, options |-> options]]
    IN  IF ~Truthy(baseurl) \/ ~isURL(baseurl)
        THEN [obj EXCEPT !.state = "failed", !.err = PlainError(MsgBaseurl)]
        ELSE IF ~options.present
        THEN [obj EXCEPT !.state = "failed",
                         !.err = TypeError("Cannot read properties of undefined")]
        ELSE IF ~Truthy(merged.readOnlyKey) \/ ~Truthy(merged.writeKey)
        THEN [obj EXCEPT !.state = "failed", !.err = PlainError(MsgKeys)]
        ELSE [obj EXCEPT !.state = "ok",
                         !.headers = [XApiKey |-> merged.readOnlyKey,
                                      ContentType |-> "application/json"]]

\* constructor(baseurl, options): the object built, or the error thrown.
Constructor(def, baseurl, options) ==
    LET merged == mergeDefault(def, options).given
        obj == [NoClient EXCEPT !.baseurl = baseurl, !.options = merged,
                                !.args = [baseurl |-> baseurl, options |-> options]]
    IN  IF ~Truthy(baseurl) \/ ~isURL(baseurl)
        THEN [obj EXCEPT !.state = "failed", !.err = PlainError(MsgBaseurl)]
        ELSE IF ~options.present
        THEN [obj EXCEPT !.state = "failed",
                         !.err = TypeError("Cannot read properties of undefined")]
        ELSE IF ~Truthy(merged.readOnlyKey) \/ ~Truthy(merged.writeKey)
        THEN [obj EXCEPT !.state = "failed", !.err = PlainError(MsgKeys)]
        ELSE [obj EXCEPT !.state = "ok",
                         !.headers = [XApiKey |-> merged.writeKey,
                                      ContentType |-> "application/json"]]

-----------------------------------------------------------------------------
(* The transport (axios) and the WHOIS library (whoiser), as the client    *)
(* sees them.                                                              *)

Response(status, body) == [resp |-> TRUE, status |-> status, body |-> body]
\* A network-level failure: the rejection has no `response`.
NetworkFailure == NoAnswer

\* axios with its default validateStatus resolves on 2xx and rejects on
\* every other answer.
axiosResolves(a) == a.resp /\ a.status >= 200 /\ a.status < 300

Disclaimer == "URL of the ICANN Whois Inaccuracy Complaint Form https://www.icann.org/wicf/"

\* An outcome of whoiser.domain(url): the lookup rejects (ok = FALSE) or
\* resolves to an object that has the 'whois.pir.org' entry or not, with
\* that entry's text lines.
WhoisResult(ok, pir, text) == [ok |-> ok, pir |-> pir, text |-> text]

-----------------------------------------------------------------------------
(* Request descriptors.                                                    *)

NoData == [kind |-> "none", val |-> <<>>]
\* A body builder that drops repeated items (keeps each first occurrence).
ItemsDataDeduplicated(list) ==
    [kind |-> "items",
     val |-> LET F[n \in 0..Len(list)] ==
                     IF n = 0 THEN <<>>
                     ELSE IF \E j \in 1..(n - 1) : list[j] = list[n]
                          THEN F[n - 1] ELSE Append(F[n - 1], list[n])
             IN  F[Len(list)]]

\* { items: list }
ItemsData(list) == [kind |-> "items", val |-> list]
ObjectData(obj) == [kind |-> "object", val |-> obj]

\* `${this._baseurl}/api/v1/...`: the base and the path segments after it.
Url(cl, path) == [base |-> ToStr(cl.baseurl), path |-> path]

Config(cl, path, method, data) ==
    [url |-> Url(cl, path), headers |-> cl.headers, method |-> method, data |-> data]

NoConfig == [url |-> [base |-> "", path |-> <<>>], headers |-> NoHeaders,
             method |-> "none", data |-> NoData]

getUserMailBoxConfig(cl, user) ==
    Config(cl, <<"api", "v1", "get", "mailbox", ToStr(user)>>, "get", NoData)

listMailboxesConfig(cl) ==
    Config(cl, <<"api", "v1", "get", "mailbox", "all">>, "get", NoData)

addMailboxConfig(cl, mailboxDetails) ==
    Config(cl, <<"api", "v1", "add", "mailbox">>, "post", ObjectData(mailboxDetails))

deleteMailboxConfig(cl, mailboxes) ==
    Config(cl, <<"api", "v1", "delete", "mailbox">>, "post", ItemsData(mailboxes))

getDomainConfig(cl, domain) ==
    Config(cl, <<"api", "v1", "get", "domain", ToStr(domain)>>, "get", NoData)

addDomainConfig(cl, domain) ==
    Config(cl, <<"api", "v1", "add", "domain">>, "post", ObjectData(domain))

deleteDomainConfig(cl, domains) ==
    Config(cl, <<"api", "v1", "delete", "domain">>, "post", ItemsData(domains))

addAliasConfig(cl, aliasDetails) ==
    Config(cl, <<"api", "v1", "add", "alias">>, "post", ObjectData(aliasDetails))

deleteAliasConfig(cl, aliases) ==
    Config(cl, <<"api", "v1", "delete", "alias">>, "post", ItemsData(aliases))

addSyncJobConfig(cl, syncJobDetails) ==
    Config(cl, <<"api", "v1", "add", "syncjob">>, "post", ObjectData(syncJobDetails))

deleteSyncJobConfig(cl, syncJobs) ==
    Config(cl, <<"api", "v1", "delete", "syncjob">>, "post", ItemsData(syncJobs))

addForwardingHostConfig(cl, fwdHostDetails) ==
    Config(cl, <<"api", "v1", "add", "fwdhost">>, "post", ObjectData(fwdHostDetails))

deleteForwardingHostConfig(cl, fwdHosts) ==
    Config(cl, <<"api", "v1", "delete", "fwdhost">>, "post", ItemsData(fwdHosts))

\* `type = 'sogo'`: the default parameter replaces undefined only.
getLogsConfig(cl, type) ==
    Config(cl, <<"api", "v1", "get", "logs",
                 IF type.t = "undefined" THEN "sogo" ELSE ToStr(type)>>, "get", NoData)

-----------------------------------------------------------------------------
(* Domain validation, WHOIS gate and defaults of addDomain / addMailbox.   *)

\* The character class [A-Z-a-z0-9]: letters, digits and the hyphen.
LabelChars ==
    {"A", "B", "C", "D", "E", "F", "G", "H", "I", "J", "K", "L", "M",
     "N", "O", "P", "Q", "R", "S", "T", "U", "V", "W", "X", "Y", "Z",
     "a", "b", "c", "d", "e", "f", "g", "h", "i", "j", "k", "l", "m",
     "n", "o", "p", "q", "r", "s", "t", "u", "v", "w", "x", "y", "z",
     "0", "1", "2", "3", "4", "5", "6", "7", "8", "9", "-"}

\* The same search without the `$` anchor.
MatchesUnanchored(s) ==
    \E k \in 1..Len(s) : \E d \in (k + 1)..Len(s) : \E e \in (d + 1)..Len(s) :
        /\ s[d] = "."
        /\ \A j \in k..(d - 1) : s[j] \in LabelChars
        /\ \A j \in (d + 1)..e : s[j] \in LabelChars

\* s.match(/[A-Z-a-z0-9]+\.[A-Z-a-z0-9]+$/) is not null: the search may
\* start at any position k; one or more class characters, a dot at d, and
\* one or more class characters up to the end of the string.
Matches(s) ==
    \E k \in 1..Len(s) : \E d \in (k + 1)..Len(s) :
        /\ s[d] = "."
        /\ d < Len(s)
        /\ \A j \in k..(d - 1) : s[j] \in LabelChars
        /\ \A j \in (d + 1)..Len(s) : s[j] \in LabelChars

\* A check that answers true for every resolved lookup.
checkAvailableAnyAnswer(url, w) ==
    IF ~w.ok THEN [threw |-> TRUE, value |-> FALSE, err |-> WhoisError]
    ELSE [threw |-> FALSE, value |-> TRUE, err |-> NoError]

\* checkAvailable(url) after its await: the value returned or the error
\* thrown for the lookup outcome w.
checkAvailable(url, w) ==
    IF ~w.ok THEN [threw |-> TRUE, value |-> FALSE, err |-> WhoisError]
    ELSE IF ~w.pir
    THEN [threw |-> TRUE, value |-> FALSE,
          err |-> TypeError("Cannot read properties of undefined")]
    ELSE [threw |-> FALSE, value |-> Len(w.text) >= 1 /\ w.text[1] = Disclaimer,
          err |-> NoError]

DomainFields == {"active", "aliases", "defquota", "mailboxes", "maxquota", "quota"}
MailboxFields == {"active", "quota", "force_pw_update", "tls_enforce_in",
                  "tls_enforce_out", "tags"}

domainDefault ==
    [active |-> JNum("1"), aliases |-> JNum("400"), defquota |-> JNum("3072"),
     mailboxes |-> JNum("10"), maxquota |-> JNum("10240"), quota |-> JNum("10240")]

mailboxDefault ==
    [active |-> JNum("1"), quota |-> JNum("3072"), force_pw_update |-> JNum("1"),
     tls_enforce_in |-> JNum("1"), tls_enforce_out |-> JNum("1"), tags |-> JArr("[]")]

\* An object argument: its domain string (a sequence of characters), the
\* fields the operation may default (undefined when unset) and one field
\* the client never looks at.
Details(domain, f, description) == [domain |-> domain, f |-> f, description |-> description]

\* Defaults applied with `||` to every field.
addDomainDefaultsFalsy(domain) ==
    [domain EXCEPT !.f = [k \in DomainFields |->
        IF ~Truthy(domain.f[k]) THEN domainDefault[k] ELSE domain.f[k]]]

\* addDomain's six assignments.
addDomainDefaults(domain) ==
    [domain EXCEPT !.f = [k \in DomainFields |->
        IF TypeofUndefined(domain.f[k]) THEN domainDefault[k] ELSE domain.f[k]]]

\* addMailbox's six assignments: five typeof tests and `tags || []`.
addMailboxDefaults(mailboxDetails) ==
    [mailboxDetails EXCEPT !.f = [k \in MailboxFields |->
        IF k = "tags"
        THEN IF Truthy(mailboxDetails.f[k]) THEN mailboxDetails.f[k] ELSE mailboxDefault[k]
        ELSE IF TypeofUndefined(mailboxDetails.f[k]) THEN mailboxDefault[k]
             ELSE mailboxDetails.f[k]]]

-----------------------------------------------------------------------------
(* Calls.  A slot holds one call of a public operation from its start to   *)
(* its result, with what it sent and what it was answered.                 *)

Slots == {1, 2}

\* retryRequest's default `retries = 3`.
Retries == 3

IdleSlot ==
    [pc |-> "idle", op |-> "none", arg |-> <<>>, fn |-> "none", i |-> 0,
     config |-> NoConfig, sent |-> <<>>, answers |-> <<>>,
     lookups |-> <<>>, whoisAnswers |-> <<>>, result |-> NoResult]

\* A call of `op` with argument `arg` begins.
Begin(op, arg) == [IdleSlot EXCEPT !.pc = "running", !.op = op, !.arg = arg]

\* The call ends: its promise settles with `result`.
Finish(slot, result) == [slot EXCEPT !.pc = "done", !.result = result]

\* axios(config): one HTTP attempt goes out.
axios(slot, config) == [slot EXCEPT !.pc = "http", !.sent = Append(@, config)]

\* request(config) up to its await.
request(slot, config) ==
    axios([slot EXCEPT !.fn = "request", !.config = config], config)

\* retryRequest(config) up to its first await.
retryRequest(slot, config) ==
    axios([slot EXCEPT !.fn = "retryRequest", !.config = config, !.i = 0], config)

\* A catch block of request that retries on every rejection.
requestSettledRetryAll(slot, a) ==
    LET s1 == [slot EXCEPT !.answers = Append(@, a)]
    IN  IF axiosResolves(a) THEN Finish(s1, Returned(a.body))
        ELSE retryRequest(s1, s1.config)

\* request(config) from its await on: the answer a of its attempt arrived.
requestSettled(slot, a) ==
    LET s1 == [slot EXCEPT !.answers = Append(@, a)]
    IN  IF axiosResolves(a) THEN Finish(s1, Returned(a.body))
        ELSE IF a.resp /\ a.status >= 500 THEN retryRequest(s1, s1.config)
        ELSE Finish(s1, Thrown(AxiosError(Len(s1.answers), a)))

\* A loop that stops one iteration early.
retryRequestSettledShort(slot, a) ==
    LET s1 == [slot EXCEPT !.answers = Append(@, a)]
    IN  IF axiosResolves(a) THEN Finish(s1, Returned(a.body))
        ELSE IF s1.i >= Retries - 2 THEN Finish(s1, Thrown(AxiosError(Len(s1.answers), a)))
        ELSE axios([s1 EXCEPT !.i = @ + 1], s1.config)

\* A loop that keeps going after a successful attempt unless it is the last.
retryRequestSettledNoReturn(slot, a) ==
    LET s1 == [slot EXCEPT !.answers = Append(@, a)]
    IN  IF s1.i = Retries - 1
        THEN IF axiosResolves(a) THEN Finish(s1, Returned(a.body))
             ELSE Finish(s1, Thrown(AxiosError(Len(s1.answers), a)))
        ELSE axios([s1 EXCEPT !.i = @ + 1], s1.config)

\* A loop whose last iteration does not throw: it runs out and the function
\* returns nothing.
retryRequestSettledFallThrough(slot, a) ==
    LET s1 == [slot EXCEPT !.answers = Append(@, a)]
    IN  IF axiosResolves(a) THEN Finish(s1, Returned(a.body))
        ELSE IF s1.i = Retries - 1 THEN Finish(s1, NoResult)
        ELSE axios([s1 EXCEPT !.i = @ + 1], s1.config)

\* retryRequest's loop from its await on: the answer a of iteration i arrived.
retryRequestSettled(slot, a) ==
    LET s1 == [slot EXCEPT !.answers = Append(@, a)]
    IN  IF axiosResolves(a) THEN Finish(s1, Returned(a.body))
        ELSE IF s1.i = Retries - 1 THEN Finish(s1, Thrown(AxiosError(Len(s1.answers), a)))
        ELSE axios([s1 EXCEPT !.i = @ + 1], s1.config)

\* checkAvailable(url) up to its await: the lookup goes out, or it throws.
checkAvailableStart(slot, url) ==
    IF url = <<>> THEN Finish(slot, Thrown(PlainError(MsgNoDomain)))
    ELSE [slot EXCEPT !.pc = "whois", !.lookups = Append(@, url)]

\* addDomain(domain) up to its first await.
addDomainStart(domain) ==
    LET s0 == Begin("addDomain", domain)
    IN  IF ~Matches(domain.domain) THEN Finish(s0, Thrown(PlainError(MsgInvalidDomain)))
        ELSE checkAvailableStart(s0, domain.domain)

\* addMailbox(mailboxDetails) up to its first await.
addMailboxStart(mailboxDetails) ==
    LET s0 == Begin("addMailbox", mailboxDetails)
    IN  IF ~Matches(mailboxDetails.domain)
        THEN Finish(s0, Thrown(PlainError(MsgInvalidMailboxDomain)))
        ELSE checkAvailableStart(s0, mailboxDetails.domain)

\* addDomain / addMailbox after `await this.checkAvailable(...)`, for the
\* lookup outcome w: the error, or the defaults and the create request.
addResumed(cl, slot, w) ==
    LET s1 == [slot EXCEPT !.whoisAnswers = Append(@, w)]
        domainWhois == checkAvailable(s1.arg.domain, w)
    IN  IF domainWhois.threw THEN Finish(s1, Thrown(domainWhois.err))
        ELSE IF ~domainWhois.value THEN Finish(s1, Thrown(PlainError(MsgNotRegistered)))
        ELSE IF s1.op = "addDomain"
        THEN request(s1, addDomainConfig(cl, addDomainDefaults(s1.arg)))
        ELSE request(s1, addMailboxConfig(cl, addMailboxDefaults(s1.arg)))

-----------------------------------------------------------------------------
(* Actions.                                                                *)

Free(c) == client.state = "ok" /\ calls[c].pc = "idle"

\* A public operation that only builds its descriptor and calls request.
Call(c, op, arg, config) ==
    /\ Free(c)
    /\ calls' = [calls EXCEPT ![c] = request(Begin(op, arg), config)]
    /\ UNCHANGED client

Construct(def, baseurl, options) ==
    /\ client.state = "none"
    /\ client' = Constructor(def, baseurl, options)
    /\ UNCHANGED calls

getUserMailBox(c, user) == Call(c, "getUserMailBox", user, getUserMailBoxConfig(client, user))

listMailboxes(c) == Call(c, "listMailboxes", JUndefined, listMailboxesConfig(client))

addMailbox(c, mailboxDetails) ==
    /\ Free(c)
    /\ calls' = [calls EXCEPT ![c] = addMailboxStart(mailboxDetails)]
    /\ UNCHANGED client

deleteMailbox(c, mailboxes) ==
    Call(c, "deleteMailbox", mailboxes, deleteMailboxConfig(client, mailboxes))

getDomain(c, domain) == Call(c, "getDomain", domain, getDomainConfig(client, domain))

addDomain(c, domain) ==
    /\ Free(c)
    /\ calls' = [calls EXCEPT ![c] = addDomainStart(domain)]
    /\ UNCHANGED client

deleteDomain(c, domains) ==
    Call(c, "deleteDomain", domains, deleteDomainConfig(client, domains))

addAlias(c, aliasDetails) ==
    Call(c, "addAlias", aliasDetails, addAliasConfig(client, aliasDetails))

deleteAlias(c, aliases) ==
    Call(c, "deleteAlias", aliases, deleteAliasConfig(client, aliases))

addSyncJob(c, syncJobDetails) ==
    Call(c, "addSyncJob", syncJobDetails, addSyncJobConfig(client, syncJobDetails))

deleteSyncJob(c, syncJobs) ==
    Call(c, "deleteSyncJob", syncJobs, deleteSyncJobConfig(client, syncJobs))

addForwardingHost(c, fwdHostDetails) ==
    Call(c, "addForwardingHost", fwdHostDetails, addForwardingHostConfig(client, fwdHostDetails))

deleteForwardingHost(c, fwdHosts) ==
    Call(c, "deleteForwardingHost", fwdHosts, deleteForwardingHostConfig(client, fwdHosts))

getLogs(c, type) == Call(c, "getLogs", type, getLogsConfig(client, type))

\* whoiser.domain(url) settles with w and the suspended add operation resumes.
WhoisSettles(c, w) ==
    /\ calls[c].pc = "whois"
    /\ calls' = [calls EXCEPT ![c] = addResumed(client, calls[c], w)]
    /\ UNCHANGED client

\* The attempt awaited in request settles with a.
RequestSettles(c, a) ==
    /\ calls[c].pc = "http"
    /\ calls[c].fn = "request"
    /\ calls' = [calls EXCEPT ![c] = requestSettled(calls[c], a)]
    /\ UNCHANGED client

\* A retry loop whose index is a field of the client, shared by its calls.
RetrySettlesSharedIndex(c, a) ==
    /\ calls[c].pc = "http"
    /\ calls[c].fn = "retryRequest"
    /\ LET mine == retryRequestSettled(calls[c], a)
       IN  calls' = [d \in Slots |->
                       IF d = c THEN mine
                       ELSE IF calls[d].pc = "http" /\ calls[d].fn = "retryRequest"
                            THEN [calls[d] EXCEPT !.i = mine.i]
                            ELSE calls[d]]
    /\ UNCHANGED client

\* The attempt awaited in retryRequest settles with a.
RetrySettles(c, a) ==
    /\ calls[c].pc = "http"
    /\ calls[c].fn = "retryRequest"
    /\ calls' = [calls EXCEPT ![c] = retryRequestSettled(calls[c], a)]
    /\ UNCHANGED client

\* The caller's await takes the settled result; the slot is free again.
Deliver(c) ==
    /\ calls[c].pc = "done"
    /\ calls' = [calls EXCEPT ![c] = IdleSlot]
    /\ UNCHANGED client

-----------------------------------------------------------------------------
(* Inputs and specifications.                                              *)

MaxItems == 2
MaxLen == 4

RECURSIVE SeqsUpTo(_, _)
SeqsUpTo(S, n) ==
    IF n = 0 THEN {<<>>}
    ELSE LET shorter == SeqsUpTo(S, n - 1)
         IN  shorter \cup {Append(q, x) : q \in shorter, x \in S}

GoodUrl == JStr("https://mail.example.org")
CtorBaseurls == {JUndefined, JStr(""), JStr("mail"), GoodUrl}
CtorReadKeys == {JUndefined, JNull, JStr(""), JStr("RO-KEY")}
CtorWriteKeys == {JUndefined, JNull, JStr(""), JStr("RW-KEY")}
CtorOptions == {NoOptions} \cup {Options(r, w) : r \in CtorReadKeys, w \in CtorWriteKeys}

Users == {JUndefined, JStr(""), JStr("bob@a.org")}
DomainNames == {JUndefined, JStr(""), JStr("a.org")}
LogTypes == {JUndefined, JStr("api")}
ItemLists == SeqsUpTo({"a", "b"}, MaxItems)
ObjectArgs == {"details1", "details2"}

DomainUnset == [k \in DomainFields |-> JUndefined]
MailboxUnset == [k \in MailboxFields |-> JUndefined]

DomainArgs ==
    {Details(d, f, JUndefined) :
        d \in {<<"a", ".", "a">>, <<"a", "@">>},
        f \in {DomainUnset, [DomainUnset EXCEPT !["quota"] = JNum("0")]}}

MailboxArgs ==
    {Details(d, f, JUndefined) :
        d \in {<<"a", ".", "a">>, <<".", "a">>},
        f \in {MailboxUnset, [MailboxUnset EXCEPT !["tags"] = JNull]}}

TransportAnswers ==
    {Response(200, "B1"), Response(200, "B2"), Response(404, "B1"), Response(499, "B2"),
     Response(500, "B1"), Response(503, "B2"), NetworkFailure}

WhoisAnswers ==
    {WhoisResult(FALSE, FALSE, <<>>), WhoisResult(TRUE, FALSE, <<>>),
     WhoisResult(TRUE, TRUE, <<>>), WhoisResult(TRUE, TRUE, <<Disclaimer>>),
     WhoisResult(TRUE, TRUE, <<"Domain Name: a.a">>),
     WhoisResult(TRUE, TRUE, <<"Domain Name: a.a", Disclaimer>>)}

\* Calls are made one at a time, in slot 1.
SeqSlots == {1}

Init ==
    /\ client = NoClient
    /\ calls = [c \in Slots |-> IdleSlot]

Next ==
    \/ \E def \in mailcowjsOptionsChoices, b \in CtorBaseurls, o \in CtorOptions :
           Construct(def, b, o)
    \/ \E c \in SeqSlots :
        \/ \E user \in Users : getUserMailBox(c, user)
        \/ listMailboxes(c)
        \/ \E d \in MailboxArgs : addMailbox(c, d)
        \/ \E l \in ItemLists : deleteMailbox(c, l)
        \/ \E d \in DomainNames : getDomain(c, d)
        \/ \E d \in DomainArgs : addDomain(c, d)
        \/ \E l \in ItemLists : deleteDomain(c, l)
        \/ \E a \in ObjectArgs : addAlias(c, a)
        \/ \E l \in ItemLists : deleteAlias(c, l)
        \/ \E a \in ObjectArgs : addSyncJob(c, a)
        \/ \E l \in ItemLists : deleteSyncJob(c, l)
        \/ \E a \in ObjectArgs : addForwardingHost(c, a)
        \/ \E l \in ItemLists : deleteForwardingHost(c, l)
        \/ \E t \in LogTypes : getLogs(c, t)
        \/ \E w \in WhoisAnswers : WhoisSettles(c, w)
        \/ \E a \in TransportAnswers : RequestSettles(c, a)
        \/ \E a \in TransportAnswers : RetrySettles(c, a)
        \/ Deliver(c)

Spec == Init /\ [][Next]_vars

\* The client as a successful construction leaves it.
ReadyClient ==
    Constructor([readOnlyKey |-> JNull, writeKey |-> JNull], GoodUrl,
                Options(JStr("RO-KEY"), JStr("RW-KEY")))

Chars == {"a", "-", ".", "@"}
DomainStrings == SeqsUpTo(Chars, MaxLen)

FieldValues == {JUndefined, JNull, JNum("0"), JBool("false"), JStr(""), JNum("5")}
TagsValues == FieldValues \cup {JArr("[x]")}

\* Field records in which every field is unset or 5, but for at most one
\* field, which takes any of the values `vals`.
FieldChoices(fields, vals) ==
    {[g EXCEPT ![k] = v] : g \in [fields -> {JUndefined, JNum("5")}], k \in fields, v \in vals}

WideDomainArgs ==
    {Details(d, DomainUnset, JUndefined) : d \in DomainStrings}
    \cup {Details(<<"a", ".", "a">>, f, JStr("main")) : f \in FieldChoices(DomainFields, FieldValues)}

WideMailboxArgs ==
    {Details(d, MailboxUnset, JUndefined) : d \in DomainStrings}
    \cup {Details(<<"a", ".", "a">>, f, JStr("main")) :
            f \in FieldChoices(MailboxFields, FieldValues)
                  \cup {[g EXCEPT !["tags"] = v] :
                            g \in [MailboxFields -> {JUndefined, JNum("5")}], v \in TagsValues}}

InitInputs ==
    /\ client = ReadyClient
    /\ calls = [c \in Slots |-> IdleSlot]

NextInputs ==
    \E c \in SeqSlots :
        \/ \E d \in WideMailboxArgs : addMailbox(c, d)
        \/ \E d \in WideDomainArgs : addDomain(c, d)
        \/ \E w \in {WhoisResult(TRUE, TRUE, <<Disclaimer>>),
                     WhoisResult(TRUE, TRUE, <<"Domain Name: a.a">>)} : WhoisSettles(c, w)
        \/ \E a \in {Response(200, "B1"), Response(500, "B1")} : RequestSettles(c, a)
        \/ \E a \in {Response(200, "B1"), Response(500, "B1")} : RetrySettles(c, a)
        \/ Deliver(c)

\* Only addDomain / addMailbox, over every domain string up to MaxLen and
\* over the field records of FieldChoices, on a constructed client.
SpecInputs == InitInputs /\ [][NextInputs]_vars

ConcAnswers == {Response(200, "B1"), Response(404, "B1"), Response(500, "B1"), NetworkFailure}

ConcWhoisAnswers == {WhoisResult(TRUE, TRUE, <<Disclaimer>>), WhoisResult(FALSE, FALSE, <<>>)}

NextConc ==
    \/ \E o \in {Options(JStr("RO-KEY"), JStr("RW-KEY")), Options(JStr("RO-KEY"), JStr(""))} :
           Construct([readOnlyKey |-> JNull, writeKey |-> JNull], GoodUrl, o)
    \/ \E c \in Slots :
        \/ listMailboxes(c)
        \/ getLogs(c, JStr("api"))
        \/ deleteDomain(c, <<"a">>)
        \/ addDomain(c, Details(<<"a", ".", "a">>, DomainUnset, JUndefined))
        \/ \E w \in ConcWhoisAnswers : WhoisSettles(c, w)
        \/ \E a \in ConcAnswers : RequestSettles(c, a)
        \/ \E a \in ConcAnswers : RetrySettles(c, a)
        \/ Deliver(c)

\* Two calls in flight on the same client, their steps interleaved in
\* every order.
SpecConc == Init /\ [][NextConc]_vars

\* Spec with a transport that settles every attempt it was given: an
\* awaited axios(config) is eventually resolved or rejected.
SpecLive ==
    /\ Spec
    /\ WF_vars(\E c \in SeqSlots : \E a \in TransportAnswers : RequestSettles(c, a))
    /\ WF_vars(\E c \in SeqSlots : \E a \in TransportAnswers : RetrySettles(c, a))

-----------------------------------------------------------------------------
(* Claims.                                                                 *)

Is5xx(a) == a.resp /\ a.status >= 500
Is4xx(a) == a.resp /\ a.status >= 400 /\ a.status < 500
IsNetworkFailure(a) == ~a.resp

Attempts(c) == Len(calls[c].sent)
Answered(c) == Len(calls[c].answers)

\* The first n attempts of the call in slot c were all answered with >= 500.
FirstAll5xx(c, n) ==
    /\ Answered(c) >= n
    /\ \A k \in 1..n : Is5xx(calls[c].answers[k])

\* C1 as stated: once the first three attempts of a call were answered with
\* a status >= 500, the call has made exactly 3 attempts, has failed, and
\* its error is the third attempt's.
C1_ThreeAttemptsThenFail ==
    \A c \in Slots :
        FirstAll5xx(c, 3) =>
            /\ calls[c].pc = "done"
            /\ Attempts(c) = 3
            /\ calls[c].result = Thrown(AxiosError(3, calls[c].answers[3]))

\* C1 amended: a call never makes more than 4 attempts (1 in request and
\* Retries in retryRequest); while its first n < 4 attempts were all
\* answered with a status >= 500 the next attempt is in flight; once the
\* first four were, the call has made exactly 4 attempts, has failed, and
\* its error is the fourth attempt's.
C1_FourAttemptsThenFail ==
    \A c \in Slots :
        /\ Attempts(c) <= 1 + Retries
        /\ \A n \in 1..Retries :
              (Answered(c) = n /\ FirstAll5xx(c, n)) =>
                  /\ calls[c].pc = "http"
                  /\ Attempts(c) = n + 1
        /\ FirstAll5xx(c, 1 + Retries) =>
              /\ calls[c].pc = "done"
              /\ Attempts(c) = 1 + Retries
              /\ calls[c].result =
                     Thrown(AxiosError(1 + Retries, calls[c].answers[1 + Retries]))

C1_Witness ==
    \E c \in Slots :
        /\ FirstAll5xx(c, 4)
        /\ calls[c].pc = "done"
        /\ calls[c].answers[3] # calls[c].answers[4]

\* C2: a call whose first attempt was answered 500 and whose second was
\* answered 200 has ended, returns exactly the body of the 200 answer, sent
\* the same descriptor on both attempts and made no third attempt.
C2_RetryRecovers ==
    \A c \in Slots :
        ( /\ Answered(c) >= 2
          /\ calls[c].answers[1].resp /\ calls[c].answers[1].status = 500
          /\ calls[c].answers[2].resp /\ calls[c].answers[2].status = 200 ) =>
            /\ calls[c].pc = "done"
            /\ calls[c].result = Returned(calls[c].answers[2].body)
            /\ Attempts(c) = 2
            /\ calls[c].sent[1] = calls[c].sent[2]

C2_Witness ==
    \E c \in Slots :
        /\ Answered(c) = 2
        /\ calls[c].answers[1] = Response(500, "B1")
        /\ calls[c].answers[2] = Response(200, "B2")
        /\ calls[c].result.body = "B2"

\* C3 as stated: a further attempt follows only an attempt answered with a
\* status >= 500; an attempt (the first or a later one) that fails at
\* network level ends the call with that attempt's error.
C3_NetworkFailureEndsCall ==
    \A c \in Slots :
        \A k \in 1..Answered(c) :
            /\ (k < Attempts(c)) => Is5xx(calls[c].answers[k])
            /\ IsNetworkFailure(calls[c].answers[k]) =>
                  /\ calls[c].pc = "done"
                  /\ Attempts(c) = k
                  /\ calls[c].result = Thrown(AxiosError(k, calls[c].answers[k]))

\* C4 as stated: a call whose single attempt was answered with a 4xx status
\* returns the body of that answer and makes no retry.
C4_ClientErrorBodyReturned ==
    \A c \in Slots :
        (Answered(c) >= 1 /\ Is4xx(calls[c].answers[1])) =>
            /\ calls[c].pc = "done"
            /\ Attempts(c) = 1
            /\ calls[c].result = Returned(calls[c].answers[1].body)

\* C4 amended: a call whose first attempt was answered with a 4xx status
\* has ended after that single attempt and raises that attempt's error
\* (which carries the response); it does not return the body.
C4_ClientErrorRaised ==
    \A c \in Slots :
        (Answered(c) >= 1 /\ Is4xx(calls[c].answers[1])) =>
            /\ calls[c].pc = "done"
            /\ Attempts(c) = 1
            /\ calls[c].result = Thrown(AxiosError(1, calls[c].answers[1]))

C4_Witness ==
    \E c \in Slots :
        /\ calls[c].pc = "done"
        /\ calls[c].answers = <<Response(404, "B1")>>
        /\ calls[c].result.kind = "throw"

\* No HTTP request and no WHOIS lookup was ever issued.
NothingIssued == \A c \in Slots : calls[c].sent = <<>> /\ calls[c].lookups = <<>>

\* A key the options lack or give empty.
MissingKey(k) == k.t \in {"undefined", "null"} \/ (k.t = "string" /\ k.v = "")

\* The constructor arguments C5 speaks of: the base URL absent or not a
\* valid URL, the options absent, or a key absent or empty.
BadConstructorArgs(a) ==
    \/ a.baseurl.t \in {"undefined", "null"}
    \/ ~(a.baseurl.t = "string" /\ a.baseurl.v \in ValidUrls)
    \/ ~a.options.present
    \/ MissingKey(a.options.readOnlyKey)
    \/ MissingKey(a.options.writeKey)

\* C5: a construction with such arguments has thrown (there is no client
\* object), and no HTTP request and no WHOIS lookup was issued.
C5_BadConstructionFails ==
    (client.state # "none" /\ BadConstructorArgs(client.args)) =>
        /\ client.state = "failed"
        /\ client.err.type \in {"Error", "TypeError"}
        /\ NothingIssued

C5_Witness ==
    /\ client.state = "failed"
    /\ client.args.baseurl = GoodUrl
    /\ client.args.options.present
    /\ client.args.options.readOnlyKey = JStr("RO-KEY")
    /\ client.args.options.writeKey = JStr("")

AddOps == {"addDomain", "addMailbox"}

IsLabel(s) == Len(s) >= 1 /\ \A j \in 1..Len(s) : s[j] \in LabelChars

\* The hostname pattern of the spec: the string ends with a label, a dot
\* and a label (labels of letters, digits and hyphens).
HostnamePattern(s) ==
    \E n \in 1..Len(s) : \E m \in 1..Len(s) :
        /\ n + 1 + m <= Len(s)
        /\ IsLabel(SubSeq(s, Len(s) - m + 1, Len(s)))
        /\ s[Len(s) - m] = "."
        /\ IsLabel(SubSeq(s, Len(s) - m - n, Len(s) - m - 1))

ValidationError(op) ==
    IF op = "addDomain" THEN PlainError(MsgInvalidDomain)
    ELSE PlainError(MsgInvalidMailboxDomain)

\* C6: an addDomain / addMailbox call whose domain string does not match
\* the hostname pattern has failed with the validation error, and has
\* issued no WHOIS lookup and no HTTP request.
C6_InvalidDomainRejected ==
    \A c \in Slots :
        (calls[c].op \in AddOps /\ ~HostnamePattern(calls[c].arg.domain)) =>
            /\ calls[c].pc = "done"
            /\ calls[c].result = Thrown(ValidationError(calls[c].op))
            /\ calls[c].lookups = <<>>
            /\ calls[c].sent = <<>>

\* A rejected string that contains label-dot-label, only not at its end.
C6_Witness ==
    \E c \in Slots :
        /\ calls[c].op = "addMailbox"
        /\ calls[c].arg.domain = <<"a", ".", "a", "@">>
        /\ calls[c].result.kind = "throw"

Registered(w) == w.ok /\ w.pir /\ Len(w.text) >= 1 /\ w.text[1] = Disclaimer

CreatePath(op) ==
    IF op = "addDomain" THEN <<"api", "v1", "add", "domain">>
    ELSE <<"api", "v1", "add", "mailbox">>

\* C7: an addDomain / addMailbox call makes no WHOIS lookup when
\* its domain does not match the pattern and exactly one, for its own
\* domain, when it does; it sends a request only after that lookup was
\* answered with the disclaimer as first text line, every request it sends
\* is the POST to its create path, and after any other answer the call has
\* ended without sending anything.
C7_CreateOnlyAfterWhois ==
    \A c \in Slots :
        calls[c].op \in AddOps =>
            /\ Len(calls[c].lookups) = (IF HostnamePattern(calls[c].arg.domain) THEN 1 ELSE 0)
            /\ \A k \in 1..Len(calls[c].lookups) : calls[c].lookups[k] = calls[c].arg.domain
            /\ Len(calls[c].whoisAnswers) <= 1
            /\ calls[c].sent # <<>> =>
                  /\ Len(calls[c].whoisAnswers) = 1
                  /\ Registered(calls[c].whoisAnswers[1])
            /\ \A k \in 1..Attempts(c) :
                  /\ calls[c].sent[k].method = "post"
                  /\ calls[c].sent[k].url.path = CreatePath(calls[c].op)
            /\ (Len(calls[c].whoisAnswers) = 1 /\ ~Registered(calls[c].whoisAnswers[1])) =>
                  /\ calls[c].pc = "done"
                  /\ calls[c].result.kind = "throw"
                  /\ calls[c].sent = <<>>

\* The lookup was answered with the disclaimer on its second line only.
C7_Witness ==
    \E c \in Slots :
        /\ calls[c].op = "addDomain"
        /\ calls[c].pc = "done"
        /\ calls[c].whoisAnswers = <<WhoisResult(TRUE, TRUE, <<"Domain Name: a.a", Disclaimer>>)>>
        /\ calls[c].sent = <<>>

DeleteOps == {"deleteMailbox", "deleteDomain", "deleteAlias", "deleteSyncJob",
              "deleteForwardingHost"}

\* C8: every request of a bulk delete call carries the body {items: L}
\* with L the caller's list itself: same length, same element at every
\* position.
C8_BulkDeleteVerbatim ==
    \A c \in Slots :
        calls[c].op \in DeleteOps =>
            /\ Attempts(c) >= 1
            /\ \A k \in 1..Attempts(c) :
                  LET data == calls[c].sent[k].data
                  IN  /\ data.kind = "items"
                      /\ Len(data.val) = Len(calls[c].arg)
                      /\ \A j \in 1..Len(calls[c].arg) : data.val[j] = calls[c].arg[j]

C8_Witness ==
    \E c \in Slots :
        /\ calls[c].op = "deleteForwardingHost"
        /\ calls[c].arg = <<"b", "b">>
        /\ Attempts(c) = 2

FieldsOf(op) == IF op = "addDomain" THEN DomainFields ELSE MailboxFields
DefaultOf(op) == IF op = "addDomain" THEN domainDefault ELSE mailboxDefault

\* The body of the k-th request of the call in slot c.
BodySent(c, k) == calls[c].sent[k].data.val

\* C9 as stated: in every request of addDomain / addMailbox each field the
\* caller left unset carries the vendor default and each field the caller
\* supplied carries the caller's value, whatever it is.
C9_DefaultsOnlyWhenUnset ==
    \A c \in Slots :
        calls[c].op \in AddOps =>
            \A k \in 1..Attempts(c) : \A fld \in FieldsOf(calls[c].op) :
                BodySent(c, k).f[fld] =
                    IF calls[c].arg.f[fld] = JUndefined THEN DefaultOf(calls[c].op)[fld]
                    ELSE calls[c].arg.f[fld]

\* C9 amended: as stated, except for a mailbox's tags: a supplied tags
\* value that is falsy (null, 0, false, the empty string) is not sent but
\* replaced by the empty list; the domain string and the fields the client
\* has no default for are sent as given.
C9_DefaultsExceptFalsyTags ==
    \A c \in Slots :
        calls[c].op \in AddOps =>
            \A k \in 1..Attempts(c) :
                /\ calls[c].sent[k].data.kind = "object"
                /\ BodySent(c, k).domain = calls[c].arg.domain
                /\ BodySent(c, k).description = calls[c].arg.description
                /\ \A fld \in FieldsOf(calls[c].op) :
                      BodySent(c, k).f[fld] =
                          IF calls[c].arg.f[fld] = JUndefined
                          THEN DefaultOf(calls[c].op)[fld]
                          ELSE IF /\ calls[c].op = "addMailbox"
                                  /\ fld = "tags"
                                  /\ calls[c].arg.f[fld] \in
                                         {JNull, JNum("0"), JBool("false"), JStr("")}
                          THEN JArr("[]")
                          ELSE calls[c].arg.f[fld]

\* A domain sent with a supplied 0 kept and the unset fields defaulted.
C9_Witness ==
    \E c \in Slots :
        /\ calls[c].op = "addDomain"
        /\ Attempts(c) >= 1
        /\ calls[c].arg.f["quota"] = JNum("0")
        /\ calls[c].arg.f["aliases"] = JUndefined
        /\ BodySent(c, 1).f["quota"] = JNum("0")
        /\ BodySent(c, 1).f["aliases"] = JNum("400")

\* The identifier segment of the table's {user|all} and {domain|all}.
OneOrAll(id) == IF id.t = "undefined" \/ (id.t = "string" /\ id.v = "") THEN "all" ELSE id.v

\* The row of the interface table (spec section 6) for `op`.
TableMethod(op) == IF op \in {"getUserMailBox", "listMailboxes", "getDomain", "getLogs"}
                   THEN "get" ELSE "post"

TablePathMatches(op, arg, path) ==
    CASE op = "getUserMailBox" -> path = <<"api", "v1", "get", "mailbox", OneOrAll(arg)>>
      [] op = "listMailboxes" -> path = <<"api", "v1", "get", "mailbox", "all">>
      [] op = "addMailbox" -> path = <<"api", "v1", "add", "mailbox">>
      [] op = "deleteMailbox" -> path = <<"api", "v1", "delete", "mailbox">>
      [] op = "getDomain" -> path = <<"api", "v1", "get", "domain", OneOrAll(arg)>>
      [] op = "addDomain" -> path = <<"api", "v1", "add", "domain">>
      [] op = "deleteDomain" -> path = <<"api", "v1", "delete", "domain">>
      [] op = "addAlias" -> path = <<"api", "v1", "add", "alias">>
      [] op = "deleteAlias" -> path = <<"api", "v1", "delete", "alias">>
      [] op = "addSyncJob" -> path = <<"api", "v1", "add", "syncjob">>
      [] op = "deleteSyncJob" -> path = <<"api", "v1", "delete", "syncjob">>
      [] op = "addForwardingHost" -> path = <<"api", "v1", "add", "fwdhost">>
      [] op = "deleteForwardingHost" -> path = <<"api", "v1", "delete", "fwdhost">>
      [] op = "getLogs" ->
            /\ Len(path) = 6
            /\ SubSeq(path, 1, 4) = <<"api", "v1", "get", "logs">>
            /\ path[5] = (IF arg.t = "undefined" THEN "sogo" ELSE arg.v)
      [] OTHER -> FALSE

\* C10: every request of every operation has the method and the path of
\* the operation's row in the interface table.
C10_RoutesMatchTable ==
    \A c \in Slots :
        \A k \in 1..Attempts(c) :
            /\ calls[c].sent[k].method = TableMethod(calls[c].op)
            /\ TablePathMatches(calls[c].op, calls[c].arg, calls[c].sent[k].url.path)

\* C10, for the operations other than getLogs, getUserMailBox and getDomain.
C10_OtherRoutesMatchTable ==
    \A c \in Slots :
        calls[c].op \notin {"getLogs", "getUserMailBox", "getDomain"} =>
            \A k \in 1..Attempts(c) :
                /\ calls[c].sent[k].method = TableMethod(calls[c].op)
                /\ TablePathMatches(calls[c].op, calls[c].arg, calls[c].sent[k].url.path)

\* C10, for getLogs alone.
C10_GetLogsHasCount ==
    \A c \in Slots :
        calls[c].op = "getLogs" =>
            \A k \in 1..Attempts(c) :
                TablePathMatches("getLogs", calls[c].arg, calls[c].sent[k].url.path)

\* C10, for getUserMailBox and getDomain alone.
C10_AbsentIdentifierIsAll ==
    \A c \in Slots :
        calls[c].op \in {"getUserMailBox", "getDomain"} =>
            \A k \in 1..Attempts(c) :
                TablePathMatches(calls[c].op, calls[c].arg, calls[c].sent[k].url.path)

\* The header set the spec gives a client constructed with arguments a.
HeadersFor(a) == [XApiKey |-> a.options.writeKey, ContentType |-> "application/json"]

\* C11: on a constructed client the header set is, in every state, the one
\* built from the writeKey given at construction, and every request sent,
\* first attempt or retry, carries exactly that header set.
C11_HeadersFixed ==
    client.state = "ok" =>
        /\ client.headers = HeadersFor(client.args)
        /\ \A c \in Slots : \A k \in 1..Attempts(c) :
              /\ calls[c].sent[k].headers.XApiKey = client.args.options.writeKey
              /\ calls[c].sent[k].headers.ContentType = "application/json"
              /\ calls[c].sent[k].headers = client.headers

\* The second retry of a GET was sent with the write key.
C11_Witness ==
    \E c \in Slots :
        /\ Attempts(c) = 3
        /\ calls[c].sent[3].method = "get"
        /\ calls[c].sent[3].headers.XApiKey = JStr("RW-KEY")

\* C12: every WHOIS outcome other than the disclaimer as first text line
\* ends the call with the domain-not-registered error.
C12_AlwaysNotRegistered ==
    \A c \in Slots :
        ( /\ calls[c].op \in AddOps
          /\ Len(calls[c].whoisAnswers) = 1
          /\ ~Registered(calls[c].whoisAnswers[1]) ) =>
            /\ calls[c].pc = "done"
            /\ calls[c].result = Thrown(PlainError(MsgNotRegistered))

\* C12, for the lookups that resolve with the whois.pir.org entry.
C12_OtherTextNotRegistered ==
    \A c \in Slots :
        ( /\ calls[c].op \in AddOps
          /\ Len(calls[c].whoisAnswers) = 1
          /\ calls[c].whoisAnswers[1].ok /\ calls[c].whoisAnswers[1].pir
          /\ ~Registered(calls[c].whoisAnswers[1]) ) =>
            /\ calls[c].pc = "done"
            /\ calls[c].result = Thrown(PlainError(MsgNotRegistered))

\* After the answers `as` (not empty) to its attempts, a call goes on to a
\* further attempt: the last one failed, the attempts are not used up, and
\* the first was answered with a status >= 500.
Continues(as) ==
    /\ Len(as) < 1 + Retries
    /\ ~axiosResolves(as[Len(as)])
    /\ Is5xx(as[1])

\* The result a call has after the answers `as`, from these answers alone.
OwnResult(as) ==
    IF Len(as) = 0 \/ Continues(as) THEN NoResult
    ELSE IF axiosResolves(as[Len(as)]) THEN Returned(as[Len(as)].body)
    ELSE Thrown(AxiosError(Len(as), as[Len(as)]))

\* C13: with calls interleaved on one client, the configuration stays what
\* construction made it, and every call that reached request() has the
\* attempt count, the descriptors and the result that its own answers give:
\* nothing another call does or is answered changes them.
C13_CallsIndependent ==
    /\ client.state = "ok" =>
          /\ client.baseurl = client.args.baseurl
          /\ client.options = client.args.options
          /\ client.headers = HeadersFor(client.args)
    /\ \A c \in Slots :
          Attempts(c) >= 1 =>
              /\ Attempts(c) = (IF Len(calls[c].answers) = 0 \/ Continues(calls[c].answers)
                                THEN Answered(c) + 1 ELSE Answered(c))
              /\ calls[c].result = OwnResult(calls[c].answers)
              /\ (calls[c].pc = "done") = (calls[c].result # NoResult)
              /\ (calls[c].pc = "http") = (calls[c].result = NoResult)
              /\ \A k \in 1..Attempts(c) :
                    /\ calls[c].sent[k] = calls[c].sent[1]
                    /\ calls[c].sent[k].headers = client.headers
                    /\ calls[c].sent[k].url.base = client.args.baseurl.v

\* One call has failed after four attempts while another, started and
\* answered in between, is on its second attempt.
C13_Witness ==
    /\ calls[1].pc = "done"
    /\ Attempts(1) = 4
    /\ calls[1].result.kind = "throw"
    /\ calls[2].pc = "http"
    /\ Attempts(2) = 2
    /\ calls[2].op # calls[1].op

\* What C14 says of every state: at most 1 + Retries attempts; an attempt
\* goes out only when every earlier one was answered and failed; a call
\* that has ended has a body or an error, the body being that of its last
\* attempt, the only successful one.
AttemptsBoundedSequential ==
    \A c \in Slots :
        /\ Attempts(c) <= 1 + Retries
        /\ Answered(c) <= Attempts(c)
        /\ Attempts(c) <= Answered(c) + 1
        /\ \A k \in 1..(Attempts(c) - 1) : ~axiosResolves(calls[c].answers[k])
        /\ calls[c].pc = "done" =>
              /\ Answered(c) = Attempts(c)
              /\ calls[c].result.kind \in {"return", "throw"}
              /\ calls[c].result.kind = "throw" => calls[c].result.err.type # "none"
              /\ calls[c].result.kind = "return" =>
                    /\ Attempts(c) >= 1
                    /\ axiosResolves(calls[c].answers[Attempts(c)])
                    /\ calls[c].result.body = calls[c].answers[Attempts(c)].body

\* C14: with a transport that settles every attempt, a call that has an
\* attempt in flight ends, and in every state the attempts are bounded by
\* 4 and sequential and an ended call has a body or an error.
C14_Terminates ==
    /\ []AttemptsBoundedSequential
    /\ \A c \in Slots : (calls[c].pc = "http") ~> (calls[c].pc = "done")

\* A call that succeeded on its fourth and last attempt.
C14_Witness ==
    \E c \in Slots :
        /\ calls[c].pc = "done"
        /\ Attempts(c) = 1 + Retries
        /\ calls[c].result = Returned("B2")

====
